---- MODULE Spec2Model ----
(***************************************************************************)
(* EV analytics dashboard (frontend/src/App.js): dataset loading, record   *)
(* normalisation, the filter stage and the aggregate views.                *)
(*                                                                         *)
(* JavaScript strings are modelled as tuples of one-character strings, so  *)
(* that trim / toLowerCase / includes / sort are computed, not assumed.    *)
(* JavaScript numbers are records [k |-> "num", v |-> n]; NaN, null are    *)
(* [k |-> "NaN", v |-> 0] and [k |-> "null", v |-> 0].  Numeric source     *)
(* texts of the model are integer literals (optionally signed), blanks and *)
(* non-numeric words; fractional literals are outside the model.           *)
(***************************************************************************)
EXTENDS Integers, Sequences, FiniteSets, TLC

\* raw .. yearBounds are the useState cells of App; inflight counts the
\* dataset loads per stage of their asynchronous course; src is the parse
\* result the installed collection was normalised from (kept for the
\* statements below, never read by the program).
VARIABLES raw, loading, stateFilter, typeFilter, yearRange, makeQuery,
          yearBounds, inflight, src

vars == <<raw, loading, stateFilter, typeFilter, yearRange, makeQuery,
          yearBounds, inflight, src>>

(***************************************************************************)
(* Bounds of the model.                                                    *)
(***************************************************************************)
MaxRows == 2

MaxLoads == 2

MaxViewRows == 13

(***************************************************************************)
(* Characters and strings.                                                 *)
(***************************************************************************)
\* The characters of the model in UTF-16 code-unit order.
Chars == <<" ", "-", "0", "1", "2", "3", "4", "5", "6", "7", "8", "9",
           "A", "B", "C", "D", "E", "F", "G", "H", "I", "J", "K", "L", "M",
           "N", "O", "P", "Q", "R", "S", "T", "U", "V", "W", "X", "Y", "Z",
           "a", "b", "c", "d", "e", "f", "g", "h", "i", "j", "k", "l", "m",
           "n", "o", "p", "q", "r", "s", "t", "u", "v", "w", "x", "y", "z">>

UpperChars == <<"A", "B", "C", "D", "E", "F", "G", "H", "I", "J", "K", "L",
                "M", "N", "O", "P", "Q", "R", "S", "T", "U", "V", "W", "X",
                "Y", "Z">>

LowerChars == <<"a", "b", "c", "d", "e", "f", "g", "h", "i", "j", "k", "l",
                "m", "n", "o", "p", "q", "r", "s", "t", "u", "v", "w", "x",
                "y", "z">>

Digits == <<"0", "1", "2", "3", "4", "5", "6", "7", "8", "9">>

CharCode(c) == CHOOSE i \in 1..Len(Chars) : Chars[i] = c

IsSpace(c) == c = " "

ToLowerChar(c) ==
  IF \E i \in 1..Len(UpperChars) : UpperChars[i] = c
  THEN LowerChars[CHOOSE i \in 1..Len(UpperChars) : UpperChars[i] = c]
  ELSE c

\* String.prototype.toLowerCase
toLowerCase(s) == [i \in 1..Len(s) |-> ToLowerChar(s[i])]

RECURSIVE TrimStart(_)
TrimStart(s) ==
  IF s # <<>> /\ IsSpace(Head(s)) THEN TrimStart(Tail(s)) ELSE s

RECURSIVE TrimEnd(_)
TrimEnd(s) ==
  IF s # <<>> /\ IsSpace(s[Len(s)]) THEN TrimEnd(SubSeq(s, 1, Len(s) - 1))
  ELSE s

\* String.prototype.trim
trim(s) == TrimEnd(TrimStart(s))

\* s.replace(/\s+/g, " "): every run of whitespace becomes one space
RECURSIVE CollapseSpaces(_)
CollapseSpaces(s) ==
  IF s = <<>> THEN <<>>
  ELSE IF IsSpace(Head(s))
       THEN <<" ">> \o CollapseSpaces(TrimStart(s))
       ELSE <<Head(s)>> \o CollapseSpaces(Tail(s))

\* String.prototype.includes: scan the start positions left to right
RECURSIVE IncludesFrom(_, _, _)
IncludesFrom(s, q, i) ==
  IF i + Len(q) - 1 > Len(s) THEN FALSE
  ELSE IF SubSeq(s, i, i + Len(q) - 1) = q THEN TRUE
  ELSE IncludesFrom(s, q, i + 1)

includes(s, q) == IncludesFrom(s, q, 1)

\* a < b for strings, as the default comparator of Array.prototype.sort
RECURSIVE StrLess(_, _)
StrLess(a, b) ==
  IF b = <<>> THEN FALSE
  ELSE IF a = <<>> THEN TRUE
  ELSE IF Head(a) = Head(b) THEN StrLess(Tail(a), Tail(b))
  ELSE CharCode(Head(a)) < CharCode(Head(b))

S_ALL == <<"A", "L", "L">>

S_Unknown == <<"U", "n", "k", "n", "o", "w", "n">>

S_Other == <<"O", "t", "h", "e", "r">>

S_eligible == <<"e", "l", "i", "g", "i", "b", "l", "e">>

(***************************************************************************)
(* Numbers.                                                                *)
(***************************************************************************)
Num(n) == [k |-> "num", v |-> n]

NaN == [k |-> "NaN", v |-> 0]

Null == [k |-> "null", v |-> 0]

\* Number.isFinite
isFinite(x) == x.k = "num"

IsDigit(c) == \E i \in 1..Len(Digits) : Digits[i] = c

DigitVal(c) == (CHOOSE i \in 1..Len(Digits) : Digits[i] = c) - 1

RECURSIVE DigitsVal(_)
DigitsVal(s) ==
  IF s = <<>> THEN 0
  ELSE 10 * DigitsVal(SubSeq(s, 1, Len(s) - 1)) + DigitVal(s[Len(s)])

AllDigits(s) == s # <<>> /\ \A i \in 1..Len(s) : IsDigit(s[i])

\* Number(text): StringToNumber on the trimmed text
StringToNumber(s) ==
  LET t == trim(s) IN
    IF t = <<>> THEN Num(0)
    ELSE IF AllDigits(t) THEN Num(DigitsVal(t))
    ELSE IF Head(t) = "-" /\ AllDigits(Tail(t)) THEN Num(0 - DigitsVal(Tail(t)))
    ELSE NaN

(***************************************************************************)
(* Raw rows: functions from column names to strings.  A property read of a *)
(* row is [def |-> present?, s |-> text].                                  *)
(***************************************************************************)
Undefined == [def |-> FALSE, s |-> <<>>]

Str(s) == [def |-> TRUE, s |-> s]

Get(r, col) == IF col \in DOMAIN r THEN Str(r[col]) ELSE Undefined

\* a ?? b
Coalesce(a, b) == IF a.def THEN a ELSE b

\* Number(x): Number(undefined) is NaN
Number(x) == IF x.def THEN StringToNumber(x.s) ELSE NaN

RangeField(rng) == IF isFinite(rng) THEN rng ELSE Null

YearField(yr) == IF isFinite(yr) THEN yr ELSE Null

\* the body of the rows.map callback of parseCsvRows
normaliseRow(r) ==
  LET yr == Number(Coalesce(Get(r, "Model Year"),
                   Coalesce(Get(r, "model_year"), Get(r, "modelYear"))))
      rng == Number(Coalesce(Get(r, "Electric Range"),
                    Coalesce(Get(r, "electric_range"), Get(r, "range"))))
      type == trim(CollapseSpaces(
                Coalesce(Get(r, "Electric Vehicle Type"),
                  Coalesce(Get(r, "type"), Str(<<>>))).s))
      make == trim(Coalesce(Get(r, "Make"),
                     Coalesce(Get(r, "make"), Str(<<>>))).s)
      state == trim(Coalesce(Get(r, "State"),
                      Coalesce(Get(r, "state"), Str(<<>>))).s)
      cafv == trim(Coalesce(
                Get(r, "Clean Alternative Fuel Vehicle (CAFV) Eligibility"),
                  Coalesce(Get(r, "cafv"), Str(<<>>))).s)
  IN [year |-> YearField(yr),
      range |-> RangeField(rng),
      type |-> type,
      make |-> make,
      state |-> state,
      cafv |-> cafv,
      city |-> Coalesce(Get(r, "City"), Str(<<>>)).s,
      county |-> Coalesce(Get(r, "County"), Str(<<>>)).s]

parseCsvRows(rows) == [i \in 1..Len(rows) |-> normaliseRow(rows[i])]

(***************************************************************************)
(* Generic helpers of the derived values.                                  *)
(***************************************************************************)
Min2(a, b) == IF a <= b THEN a ELSE b

Max2(a, b) == IF a >= b THEN a ELSE b

\* Math.min(...ys) / Math.max(...ys) on a non-empty array of numbers
RECURSIVE MathMin(_)
MathMin(ys) ==
  IF Len(ys) = 1 THEN ys[1] ELSE Min2(Head(ys), MathMin(Tail(ys)))

RECURSIVE MathMax(_)
MathMax(ys) ==
  IF Len(ys) = 1 THEN ys[1] ELSE Max2(Head(ys), MathMax(Tail(ys)))

RECURSIVE SumSeq(_)
SumSeq(s) == IF s = <<>> THEN 0 ELSE Head(s) + SumSeq(Tail(s))

\* Math.round(a / b) for a >= 0, b > 0 (half rounds up); 0 / 0 is NaN
RoundDiv(a, b) == IF b = 0 THEN NaN ELSE Num((2 * a + b) \div (2 * b))

\* xs.map(f) where f is given as the array of its results
Project(xs, field) == [i \in 1..Len(xs) |-> xs[i][field]]

\* map.set(key, (map.get(key) || 0) + 1) on a Map kept as its entry list
MapInc(entries, key) ==
  IF \E i \in 1..Len(entries) : entries[i][1] = key
  THEN LET i == CHOOSE j \in 1..Len(entries) : entries[j][1] = key
       IN [entries EXCEPT ![i] = <<key, entries[i][2] + 1>>]
  ELSE Append(entries, <<key, 1>>)

\* the forEach loops that count keys into a Map (insertion order kept)
RECURSIVE CountInto(_, _)
CountInto(entries, keys) ==
  IF keys = <<>> THEN entries
  ELSE CountInto(MapInc(entries, Head(keys)), Tail(keys))

\* the comparators handed to Array.prototype.sort
Before(a, b, mode) ==
  CASE mode = "countDesc" -> a[2] > b[2]
    [] mode = "keyAsc" -> a[1] < b[1]
    [] mode = "string" -> StrLess(a, b)

\* an insertion that puts x in front of the elements it ties with
RECURSIVE InsertSortedUnstable(_, _, _)
InsertSortedUnstable(sorted, x, mode) ==
  IF sorted = <<>> THEN <<x>>
  ELSE IF ~Before(Head(sorted), x, mode) THEN <<x>> \o sorted
  ELSE <<Head(sorted)>> \o InsertSortedUnstable(Tail(sorted), x, mode)

RECURSIVE InsertSorted(_, _, _)
InsertSorted(sorted, x, mode) ==
  IF sorted = <<>> THEN <<x>>
  ELSE IF Before(x, Head(sorted), mode) THEN <<x>> \o sorted
  ELSE <<Head(sorted)>> \o InsertSorted(Tail(sorted), x, mode)

\* Array.prototype.sort is stable: equal elements keep their order
RECURSIVE SortFrom(_, _, _)
SortFrom(sorted, rest, mode) ==
  IF rest = <<>> THEN sorted
  ELSE SortFrom(InsertSorted(sorted, Head(rest), mode), Tail(rest), mode)

sort(xs, mode) == SortFrom(<<>>, xs, mode)

\* Array.from(new Set(xs)): first occurrences, in order
RECURSIVE Distinct(_)
Distinct(xs) ==
  IF xs = <<>> THEN <<>>
  ELSE LET init == Distinct(SubSeq(xs, 1, Len(xs) - 1))
           x == xs[Len(xs)]
       IN IF \E i \in 1..Len(init) : init[i] = x THEN init
          ELSE Append(init, x)

NonEmpty(s) == s # <<>>

\* Array.prototype.slice(a, b) with 0 <= a <= b
slice(xs, a, b) == SubSeq(xs, a + 1, Min2(b, Len(xs)))

(***************************************************************************)
(* Derived filtered dataset (useMemo `data`).                              *)
(***************************************************************************)
\* raw.filter whose year test also rejects records without a year
KeepRecordDropsAbsentYear(d) ==
  LET yMin == yearRange[1]
      yMax == yearRange[2]
      mq == toLowerCase(trim(makeQuery))
  IN IF ~isFinite(d.year) \/ d.year.v < yMin \/ d.year.v > yMax THEN FALSE
     ELSE IF stateFilter # S_ALL /\ d.state # stateFilter THEN FALSE
     ELSE IF typeFilter # S_ALL /\ d.type # typeFilter THEN FALSE
     ELSE IF mq # <<>> /\ ~includes(toLowerCase(d.make), mq) THEN FALSE
     ELSE TRUE

\* the callback of raw.filter
KeepRecord(d) ==
  LET yMin == yearRange[1]
      yMax == yearRange[2]
      mq == toLowerCase(trim(makeQuery))
  IN IF isFinite(d.year) /\ (d.year.v < yMin \/ d.year.v > yMax) THEN FALSE
     ELSE IF stateFilter # S_ALL /\ d.state # stateFilter THEN FALSE
     ELSE IF typeFilter # S_ALL /\ d.type # typeFilter THEN FALSE
     ELSE IF mq # <<>> /\ ~includes(toLowerCase(d.make), mq) THEN FALSE
     ELSE TRUE

data == SelectSeq(raw, KeepRecord)

(***************************************************************************)
(* Aggregate views.                                                        *)
(***************************************************************************)
IsPositiveRange(x) == isFinite(x) /\ x.v > 0

\* /Eligible/i.test(d.cafv)
IsEligible(d) == includes(toLowerCase(d.cafv), S_eligible)

avgRangeOf(ranges) ==
  IF Len(ranges) # 0
  THEN RoundDiv(SumSeq([i \in 1..Len(ranges) |-> ranges[i].v]), Len(ranges))
  ELSE Num(0)

\* the percentage without its division guard
cafvPctUnguarded(eligible, total) == RoundDiv(100 * eligible, total)

cafvPctOf(eligible, total) ==
  IF total # 0 THEN RoundDiv(100 * eligible, total) ELSE Num(0)

KPIs ==
  LET total == Len(data)
      makeSet == {m \in {data[i].make : i \in 1..Len(data)} : NonEmpty(m)}
      ranges == SelectSeq(Project(data, "range"), IsPositiveRange)
      eligible == SelectSeq(data, IsEligible)
  IN [total |-> total,
      uniqueMakes |-> Cardinality(makeSet),
      avgRange |-> avgRangeOf(ranges),
      cafvPct |-> cafvPctOf(Len(eligible), total)]

HasYear(d) == isFinite(d.year)

byYear ==
  LET years == SelectSeq(data, HasYear)
      map == CountInto(<<>>, [i \in 1..Len(years) |-> years[i].year.v])
      sorted == sort(map, "keyAsc")
  IN [i \in 1..Len(sorted) |-> [year |-> sorted[i][1], count |-> sorted[i][2]]]

TopMakesSize == 10

HasMake(d) == NonEmpty(d.make)

topMakes ==
  LET map == CountInto(<<>>, Project(SelectSeq(data, HasMake), "make"))
      top == slice(sort(map, "countDesc"), 0, TopMakesSize)
  IN [i \in 1..Len(top) |-> [make |-> top[i][1], count |-> top[i][2]]]

\* d.type || "Unknown", d.cafv || "Unknown"
OrUnknown(s) == IF NonEmpty(s) THEN s ELSE S_Unknown

typeDist ==
  LET map == CountInto(<<>>, [i \in 1..Len(data) |-> OrUnknown(data[i].type)])
  IN [i \in 1..Len(map) |-> [name |-> map[i][1], value |-> map[i][2]]]

CafvTopSize == 4

\* the distribution without its long-tail entry
cafvDistNoOther ==
  LET map == CountInto(<<>>, [i \in 1..Len(data) |-> OrUnknown(data[i].cafv)])
      top == slice(sort(map, "countDesc"), 0, CafvTopSize)
  IN [i \in 1..Len(top) |-> [name |-> top[i][1], value |-> top[i][2]]]

cafvDist ==
  LET map == CountInto(<<>>, [i \in 1..Len(data) |-> OrUnknown(data[i].cafv)])
      sorted == sort(map, "countDesc")
      top == slice(sorted, 0, CafvTopSize)
      tail == slice(sorted, CafvTopSize, Len(sorted))
      rest == SumSeq([i \in 1..Len(tail) |-> tail[i][2]])
      res == [i \in 1..Len(top) |-> [name |-> top[i][1], value |-> top[i][2]]]
  IN IF rest > 0 THEN Append(res, [name |-> S_Other, value |-> rest]) ELSE res

\* the bins of rangeHist; inf marks max: Infinity
bins == << [label |-> "0", min |-> 0, max |-> 0, inf |-> FALSE],
           [label |-> "1-50", min |-> 1, max |-> 50, inf |-> FALSE],
           [label |-> "51-100", min |-> 51, max |-> 100, inf |-> FALSE],
           [label |-> "101-200", min |-> 101, max |-> 200, inf |-> FALSE],
           [label |-> "201-300", min |-> 201, max |-> 300, inf |-> FALSE],
           [label |-> "301+", min |-> 301, max |-> 0, inf |-> TRUE] >>

InBin(r, b) == r >= b.min /\ (b.inf \/ r <= b.max)

\* the bin the inner for loop increments before break: the first that fits
\* (0 when the loop ends without a match)
BinOf(r) ==
  IF \E j \in 1..Len(bins) : InBin(r, bins[j])
  THEN CHOOSE j \in 1..Len(bins) :
         InBin(r, bins[j]) /\ \A h \in 1..(j - 1) : ~InBin(r, bins[h])
  ELSE 0

rangeHist ==
  [j \in 1..Len(bins) |->
     [bin |-> bins[j].label,
      count |-> Cardinality({i \in 1..Len(data) :
                   isFinite(data[i].range) /\ BinOf(data[i].range.v) = j})]]

PreviewSize == 20

previewRows == slice(data, 0, PreviewSize)

(***************************************************************************)
(* Filter domain (useMemo allStates / allTypes).                           *)
(***************************************************************************)
DomainOf(values) == <<S_ALL>> \o sort(Distinct(SelectSeq(values, NonEmpty)), "string")

\* the state menu derived from the filtered records
allStatesOfData == DomainOf(Project(data, "state"))

allStates == DomainOf(Project(raw, "state"))

allTypes == DomainOf(Project(raw, "type"))

(***************************************************************************)
(* Inputs: the source texts of the model.                                  *)
(***************************************************************************)
CafvCol == "Clean Alternative Fuel Vehicle (CAFV) Eligibility"

\* the parse results of the body of a non-success response: a one-line body
\* is only a header, a page of markup gives rows of unrecognised columns
ErrorBodyDatasets ==
  { <<>>, << ("<!DOCTYPE html>" :> <<"b", "o", "d", "y">>) >> }

\* the texts typed into the search field
Queries == { <<" ">>, <<" ", "T", "E", "S", " ">>, <<"z", "z">> }

MakeNames == <<<<"T", "e", "s", "l", "a">>,
             <<"T", "E", "S", "L", "A", " ", "M", "O", "T", "O", "R", "S">>,
             <<" ", "K", "i", "a", " ">>,
             <<"B", "M", "W">>,
             <<"A", "u", "d", "i">>,
             <<"F", "o", "r", "d">>,
             <<"F", "i", "a", "t">>,
             <<"J", "e", "e", "p">>,
             <<"M", "i", "n", "i">>,
             <<"S", "a", "a", "b">>,
             <<"V", "o", "l", "v", "o">>,
             <<>>,
             <<"O", "p", "e", "l">>>>

CafvNames == <<<<"E", "l", "i", "g", "i", "b", "l", "e">>,
             <<"N", "o", "t", " ", "e", "l", "i", "g", "i", "b", "l", "e">>,
             <<>>,
             <<"P", "e", "n", "d", "i", "n", "g">>,
             <<"O", "t", "h", "e", "r">>,
             <<"E", "L", "I", "G", "I", "B", "L", "E", " ", "s", "o", "o", "n">>,
             <<"U", "n", "k", "n", "o", "w", "n">>>>

StateNames == << <<"W", "A">>, <<" ", "C", "A">>, <<>> >>

TypeNames == << <<"B", "E", "V">>, <<"P", "l", "u", "g", " ", " ", "i", "n">>, <<>> >>

YearTexts == << <<"2", "0", "1", "8">>, <<"2", "0", "1", "9">>, <<"2", "0", "2", "0">> >>

RangeTexts == << <<"4", "5">>, <<>>, <<"-", "5">>, <<"0">>, <<"1", "5", "0">>,
                 <<"3", "5", "0">>, <<"a", "b", "c">>, <<"5", "1">> >>

\* the header names of a file: Papa.parse (header: true) keys every row by
\* them, and the files differ in which alias they use
YearCols == <<"Model Year", "model_year", "modelYear">>

RangeCols == <<"Electric Range", "electric_range", "range">>

\* the i-th row of a generated file with the given numbers of distinct
\* makes and eligibility texts; every fourth row has no year column and
\* every ninth no range column
GenRow(i, shape) ==
  LET alias == i % 2 = 0
      base == ((IF alias THEN "make" ELSE "Make")
                 :> MakeNames[((5 * i) % shape.makes) + 1])
              @@ ((IF alias THEN "cafv" ELSE CafvCol)
                 :> CafvNames[((5 * i) % shape.cafvs) + 1])
              @@ ((IF alias THEN "state" ELSE "State")
                 :> StateNames[((i \div 2) % 3) + 1])
              @@ ((IF alias THEN "type" ELSE "Electric Vehicle Type")
                 :> TypeNames[(i % 3) + 1])
              @@ ("City" :> <<"K", "e", "n", "t">>)
      withYear == IF i % 4 = 3 THEN base
                  ELSE base @@ (YearCols[(i % 3) + 1] :> YearTexts[(i % 4) + 1])
  IN IF i % 9 = 8 THEN withYear
     ELSE withYear @@ (RangeCols[(i % 3) + 1] :> RangeTexts[(i % 8) + 1])

GenRows(n, shape) == [i \in 1..n |-> GenRow(i, shape)]

ViewShapes == { [makes |-> 2, cafvs |-> 1], [makes |-> 4, cafvs |-> 3],
                [makes |-> 11, cafvs |-> 6], [makes |-> 13, cafvs |-> 7] }

LoadShapes == { [makes |-> 2, cafvs |-> 1], [makes |-> 4, cafvs |-> 3] }

\* the parse results (res.data) a file or a successful response can have
Datasets == {GenRows(n, shape) : n \in 0..MaxRows, shape \in LoadShapes}

(***************************************************************************)
(* State machine.                                                          *)
(***************************************************************************)
Stages == {"parse", "fetch", "textOk", "textErr"}

InFlight == inflight["parse"] + inflight["fetch"] + inflight["textOk"]
            + inflight["textErr"]

FallbackBounds == <<2010, 2025>>

\* [minY, maxY] as the complete callbacks compute them from the new rows
YearBoundsOf(rows) ==
  LET ys == Project(SelectSeq(rows, HasYear), "year")
      vs == [i \in 1..Len(ys) |-> ys[i].v]
  IN <<IF Len(vs) # 0 THEN MathMin(vs) ELSE FallbackBounds[1],
       IF Len(vs) # 0 THEN MathMax(vs) ELSE FallbackBounds[2]>>

Init ==
  /\ raw = <<>>
  /\ loading = FALSE
  /\ stateFilter = S_ALL
  /\ typeFilter = S_ALL
  /\ yearRange = <<2010, 2025>>
  /\ makeQuery = <<>>
  /\ yearBounds = <<2010, 2025>>
  /\ inflight = [s \in Stages |-> 0]
  /\ src = <<>>

\* a complete callback that leaves the year range the user had set
OnCompleteKeepsYearRange(resData) ==
  LET rows == parseCsvRows(resData) IN
    /\ src' = resData
    /\ raw' = rows
    /\ yearBounds' = YearBoundsOf(rows)
    /\ loading' = FALSE
    /\ UNCHANGED <<stateFilter, typeFilter, makeQuery, yearRange>>

\* the complete callback of Papa.parse, both in handleFile and loadFromPublic
OnComplete(resData) ==
  LET rows == parseCsvRows(resData) IN
    /\ src' = resData
    /\ raw' = rows
    /\ yearBounds' = YearBoundsOf(rows)
    /\ yearRange' = YearBoundsOf(rows)
    /\ loading' = FALSE
    /\ UNCHANGED <<stateFilter, typeFilter, makeQuery>>

\* error: () => setLoading(false), and the catch block
OnFailure ==
  /\ loading' = FALSE
  /\ UNCHANGED <<raw, yearBounds, yearRange, src, stateFilter, typeFilter,
                 makeQuery>>

Move(from, to) ==
  inflight' = [s \in Stages |->
                 inflight[s] - (IF s = from THEN 1 ELSE 0)
                             + (IF s = to THEN 1 ELSE 0)]

\* handleFile(file): setLoading(true), Papa.parse reads the file
handleFile ==
  /\ InFlight < MaxLoads
  /\ loading' = TRUE
  /\ Move("none", "parse")
  /\ UNCHANGED <<raw, yearBounds, yearRange, src, stateFilter, typeFilter,
                 makeQuery>>

handleFileComplete ==
  /\ inflight["parse"] > 0
  /\ Move("parse", "none")
  /\ \E resData \in Datasets : OnComplete(resData)

handleFileError ==
  /\ inflight["parse"] > 0
  /\ Move("parse", "none")
  /\ OnFailure

\* loadFromPublic(): setLoading(true), then await fetch(...)
loadFromPublic ==
  /\ InFlight < MaxLoads
  /\ loading' = TRUE
  /\ Move("none", "fetch")
  /\ UNCHANGED <<raw, yearBounds, yearRange, src, stateFilter, typeFilter,
                 makeQuery>>

\* fetch resolves (with a success or a non-success status): await res.text()
fetchResolved ==
  /\ inflight["fetch"] > 0
  /\ \E ok \in BOOLEAN : Move("fetch", IF ok THEN "textOk" ELSE "textErr")
  /\ UNCHANGED <<raw, loading, yearBounds, yearRange, src, stateFilter,
                 typeFilter, makeQuery>>

\* fetch rejects: the catch block
fetchRejected ==
  /\ inflight["fetch"] > 0
  /\ Move("fetch", "none")
  /\ OnFailure

\* res.text() resolves for a success response: Papa.parse(text) completes
textComplete ==
  /\ inflight["textOk"] > 0
  /\ Move("textOk", "none")
  /\ \E resData \in Datasets : OnComplete(resData)

\* res.text() resolves for a non-success response: the same code path
errorBodyComplete ==
  /\ inflight["textErr"] > 0
  /\ Move("textErr", "none")
  /\ \E resData \in ErrorBodyDatasets : OnComplete(resData)

\* res.text() rejects, or Papa.parse calls error: loading is cleared
textFailed ==
  /\ \E s \in {"textOk", "textErr"} : inflight[s] > 0 /\ Move(s, "none")
  /\ OnFailure

ElemsOf(xs) == {xs[i] : i \in 1..Len(xs)}

\* the stops of the year slider used as inputs: its three marks
SliderStops == {yearBounds[1], (yearBounds[1] + yearBounds[2]) \div 2,
                yearBounds[2]}

\* onChange of the State select: one of the menu items
setStateFilter ==
  /\ \E v \in ElemsOf(allStates) : stateFilter' = v
  /\ UNCHANGED <<raw, loading, typeFilter, yearRange, makeQuery, yearBounds,
                 inflight, src>>

setTypeFilter ==
  /\ \E v \in ElemsOf(allTypes) : typeFilter' = v
  /\ UNCHANGED <<raw, loading, stateFilter, yearRange, makeQuery, yearBounds,
                 inflight, src>>

\* onChange of the Slider: an ordered pair within [minY, maxY]
setYearRange ==
  /\ \E lo \in SliderStops, hi \in SliderStops :
       lo <= hi /\ yearRange' = <<lo, hi>>
  /\ UNCHANGED <<raw, loading, stateFilter, typeFilter, makeQuery, yearBounds,
                 inflight, src>>

setMakeQuery ==
  /\ \E q \in Queries : makeQuery' = q
  /\ UNCHANGED <<raw, loading, stateFilter, typeFilter, yearRange, yearBounds,
                 inflight, src>>

Next ==
  \/ handleFile
  \/ handleFileComplete
  \/ handleFileError
  \/ loadFromPublic
  \/ fetchResolved
  \/ fetchRejected
  \/ textComplete
  \/ errorBodyComplete
  \/ textFailed
  \/ setStateFilter
  \/ setTypeFilter
  \/ setYearRange
  \/ setMakeQuery

Spec == Init /\ [][Next]_vars

\* the dashboard right after a generated file has been loaded
InitViews ==
  /\ \E n \in 0..MaxViewRows, shape \in ViewShapes : src = GenRows(n, shape)
  /\ raw = parseCsvRows(src)
  /\ loading = FALSE
  /\ stateFilter = S_ALL
  /\ typeFilter = S_ALL
  /\ yearBounds = YearBoundsOf(raw)
  /\ yearRange = yearBounds
  /\ makeQuery = <<>>
  /\ inflight = [s \in Stages |-> 0]

NextViews ==
  \/ setStateFilter
  \/ setTypeFilter
  \/ setYearRange
  \/ setMakeQuery

SpecViews == InitViews /\ [][NextViews]_vars

(***************************************************************************)
(* Statements.                                                             *)
(***************************************************************************)
Indices(xs) == 1..Len(xs)

\* the filter predicate of a record, condition by condition
Satisfies(d) ==
  /\ d.year.k = "num" => (yearRange[1] <= d.year.v /\ d.year.v <= yearRange[2])
  /\ stateFilter # S_ALL => d.state = stateFilter
  /\ typeFilter # S_ALL => d.type = typeFilter
  /\ LET q == toLowerCase(trim(makeQuery)) IN
       q # <<>> =>
         \E i \in 1..Len(d.make) :
           /\ i + Len(q) - 1 <= Len(d.make)
           /\ \A j \in 1..Len(q) : ToLowerChar(d.make[i + j - 1]) = q[j]

\* C1: the working subset is exactly the records of raw that satisfy the
\* filter predicate, in their original relative order; a record without a
\* year is never excluded by the year condition.
C1_WorkingSubset ==
  LET idx == {i \in Indices(raw) : Satisfies(raw[i])}
      nth(k) == CHOOSE i \in idx : Cardinality({j \in idx : j <= i}) = k
  IN /\ Len(data) = Cardinality(idx)
     /\ \A k \in Indices(data) : data[k] = raw[nth(k)]

C1_Witness ==
  /\ yearRange # yearBounds
  /\ trim(makeQuery) # <<>>
  /\ stateFilter # S_ALL
  /\ Len(data) > 0
  /\ Len(data) < Len(raw)
  /\ \E i \in Indices(data) : data[i].year = Null

\* the steps that end a load in failure: the error callbacks, the catch
\* block, and the arrival of the body of a non-success response
LoadFails ==
  handleFileError \/ fetchRejected \/ textFailed \/ errorBodyComplete

\* the steps in which a complete callback runs
LoadCompletes == handleFileComplete \/ textComplete \/ errorBodyComplete

\* the steps of the filter controls
FilterChanges ==
  setStateFilter \/ setTypeFilter \/ setYearRange \/ setMakeQuery

\* C2: a failed load (read or parse error, fetch rejection, non-success
\* response) ends with loading cleared and raw, yearBounds and yearRange as
\* they were.
C2_FailedLoadKeepsDataset ==
  [][LoadFails =>
       /\ loading' = FALSE
       /\ raw' = raw
       /\ yearBounds' = yearBounds
       /\ yearRange' = yearRange]_vars

\* C3: while a load is in flight the loading flag is set.
C3_LoadingWhilePending == InFlight > 0 => loading = TRUE

\* C4: a completed load sets yearBounds to the extrema of the present years
\* of the new collection (the fallback when there is none) and yearRange to
\* yearBounds; no other step changes yearBounds.
C4_YearRangeReset ==
  [][IF LoadCompletes
     THEN LET ys == {raw'[i].year.v :
                       i \in {j \in Indices(raw') : raw'[j].year.k = "num"}}
          IN /\ IF ys = {} THEN yearBounds' = <<2010, 2025>>
                ELSE /\ yearBounds'[1] \in ys
                     /\ yearBounds'[2] \in ys
                     /\ \A y \in ys : yearBounds'[1] <= y /\ y <= yearBounds'[2]
             /\ yearRange' = yearBounds'
     ELSE yearBounds' = yearBounds]_vars

C4_Witness ==
  /\ yearBounds = <<2019, 2020>>
  /\ yearRange = yearBounds
  /\ Len(raw) = 2

\* the menu of a column: "ALL", then the distinct non-empty values in
\* strictly ascending order
IsDomainOf(dom, values) ==
  /\ Len(dom) >= 1
  /\ dom[1] = S_ALL
  /\ {dom[i] : i \in 2..Len(dom)} = {v \in ElemsOf(values) : v # <<>>}
  /\ \A i \in 2..Len(dom) : \A j \in 2..Len(dom) :
       i < j => StrLess(dom[i], dom[j])

\* C5: a filter change leaves raw and yearBounds as they were, and in every
\* state, whatever the filters, the menus are "ALL" followed by the sorted
\* distinct non-empty state / type values of the whole collection raw (so
\* they are the same for every filter setting).
C5_FilterChangeKeepsDomain ==
  [][/\ IsDomainOf(allStates, Project(raw, "state"))
     /\ IsDomainOf(allTypes, Project(raw, "type"))
     /\ FilterChanges => (raw' = raw /\ yearBounds' = yearBounds)]_vars

C5_Witness ==
  /\ stateFilter # S_ALL
  /\ Len(allStates) = 3
  /\ Len(data) < Len(raw)

HasRange(d) == d.range.k = "num"

HistCounts == [j \in Indices(rangeHist) |-> rangeHist[j].count]

\* C6: the histogram has the six bins in their fixed order, a record with
\* a present range is counted in exactly one bin, and the counts sum to at
\* most the subset size, to exactly that size iff no range is absent.
C6_RangeHistogram ==
  /\ [j \in Indices(rangeHist) |-> rangeHist[j].bin]
       = <<"0", "1-50", "51-100", "101-200", "201-300", "301+">>
  /\ SumSeq(HistCounts) = Cardinality({i \in Indices(data) : HasRange(data[i])})
  /\ SumSeq(HistCounts) <= Len(data)
  /\ SumSeq(HistCounts) = Len(data) <=> \A i \in Indices(data) : HasRange(data[i])

\* the source text of the range column of a row, by alias preference
RangeSource(r) ==
  IF "Electric Range" \in DOMAIN r THEN Str(r["Electric Range"])
  ELSE IF "electric_range" \in DOMAIN r THEN Str(r["electric_range"])
  ELSE IF "range" \in DOMAIN r THEN Str(r["range"])
  ELSE Undefined

\* C7: one normalized record per raw row, whose range is a present number
\* exactly when the source value parses to a non-negative number (absent
\* when it is unparseable or negative).
C7_RangeAbsentWhenNegative ==
  /\ Len(raw) = Len(src)
  /\ \A i \in Indices(raw) :
       LET n == Number(RangeSource(src[i])) IN
         IF n.k = "num" /\ n.v >= 0 THEN raw[i].range = n
         ELSE raw[i].range = Null

CafvLabel(d) == IF d.cafv = <<>> THEN S_Unknown ELSE d.cafv

\* C8: at most 5 entries: the up-to-four groups with the highest counts in
\* non-increasing order, then "Other" with the sum of the remaining groups
\* iff that sum is positive; the values sum to the subset size.
C8_EligibilityDistribution ==
  LET groups == {CafvLabel(data[i]) : i \in Indices(data)}
      cnt(g) == Cardinality({i \in Indices(data) : CafvLabel(data[i]) = g})
      res == cafvDist
      hasOther == Cardinality(groups) > 4
      named == IF hasOther THEN SubSeq(res, 1, Len(res) - 1) ELSE res
      listed == {named[i].name : i \in Indices(named)}
      restSum == Cardinality({i \in Indices(data) : CafvLabel(data[i]) \notin listed})
  IN /\ Len(res) <= 5
     /\ Len(named) = Min2(4, Cardinality(groups))
     /\ Cardinality(listed) = Len(named)
     /\ \A i \in Indices(named) :
          named[i].name \in groups /\ named[i].value = cnt(named[i].name)
     /\ \A i \in Indices(named) : \A j \in Indices(named) :
          i < j => named[i].value >= named[j].value
     /\ \A g \in groups \ listed : \A i \in Indices(named) : cnt(g) <= named[i].value
     /\ hasOther => (restSum > 0 /\ res[Len(res)] = [name |-> S_Other, value |-> restSum])
     /\ SumSeq([i \in Indices(res) |-> res[i].value]) = Len(data)

C8_Witness ==
  /\ Len(cafvDist) = 5
  /\ cafvDist[5].name = S_Other
  /\ cafvDist[5].value >= 2
  /\ cafvDist[1].value > cafvDist[4].value
  /\ cafvDist[3].value = cafvDist[4].value

\* C9: at most 10 entries, one per distinct non-empty make with its exact
\* count, non-increasing by count, equal counts in first-encountered order,
\* and no omitted make with a count above that of a listed one.
C9_TopMakes ==
  LET makes == {data[i].make : i \in Indices(data)} \ {<<>>}
      cnt(m) == Cardinality({i \in Indices(data) : data[i].make = m})
      first(m) == CHOOSE i \in Indices(data) :
                    data[i].make = m /\ \A j \in 1..(i - 1) : data[j].make # m
      res == topMakes
      listed == {res[i].make : i \in Indices(res)}
  IN /\ Len(res) = Min2(10, Cardinality(makes))
     /\ Cardinality(listed) = Len(res)
     /\ \A i \in Indices(res) :
          res[i].make \in makes /\ res[i].count = cnt(res[i].make)
     /\ \A i \in Indices(res) : \A j \in Indices(res) :
          i < j => \/ res[i].count > res[j].count
                   \/ /\ res[i].count = res[j].count
                      /\ first(res[i].make) < first(res[j].make)
     /\ \A m \in makes \ listed : \A i \in Indices(res) : cnt(m) <= res[i].count

C9_Witness ==
  /\ Len(topMakes) = 10
  /\ Cardinality({data[i].make : i \in Indices(data)} \ {<<>>}) > 10
  /\ topMakes[1].count > topMakes[10].count
  /\ topMakes[9].count = topMakes[10].count

\* C10: when no record matches the filters every view is at its zero or
\* empty output: the four counters are 0, the series, ranking, both
\* distributions and the preview are empty, and the six bins count 0.
C10_EmptyResult ==
  Len(data) = 0 =>
    /\ KPIs = [total |-> 0, uniqueMakes |-> 0, avgRange |-> Num(0),
               cafvPct |-> Num(0)]
    /\ byYear = <<>>
    /\ topMakes = <<>>
    /\ typeDist = <<>>
    /\ cafvDist = <<>>
    /\ previewRows = <<>>
    /\ Len(rangeHist) = 6
    /\ \A j \in Indices(rangeHist) : rangeHist[j].count = 0

C10_Witness ==
  /\ Len(raw) > 0
  /\ Len(data) = 0
  /\ stateFilter # S_ALL
  /\ \A i \in Indices(raw) : raw[i].state # stateFilter \/ ~Satisfies(raw[i])


\* C11: in every reachable state the selected state is an item of the state
\* menu and the selected type an item of the type menu, also after a new
\* dataset has replaced the one the selection was made on.
C11_SelectionInDomain ==
  /\ stateFilter \in ElemsOf(allStates)
  /\ typeFilter \in ElemsOf(allTypes)

====
